---------------------------- MODULE Spec2Model ----------------------------
(***************************************************************************)
(* Model of the ingestion pipeline of RAG-Chat-Agentic-System:             *)
(*   downloader.py   fetch_documents_for_date, save_raw_data,              *)
(*                   main_downloader (one fetch-and-save unit per date)    *)
(*   processor.py    process_file_and_insert, main_processor               *)
(*   run_pipeline.py run_full_pipeline                                     *)
(* asyncio is cooperative: a coroutine runs without interruption from one  *)
(* await to the next, so every action below is the code between two        *)
(* suspension points of one coroutine.                                     *)
(***************************************************************************)
EXTENDS Integers, Sequences, FiniteSets, TLC

VARIABLES
    entry,      \* which program was started: "downloader", "processor", "pipeline"
    session,    \* the shared aiohttp.ClientSession: "none", "open", "closed"
    dl,         \* position of main_downloader
    unit,       \* per date: the fetch_and_save_for_day coroutine and its locals
    rawData,    \* RAW_DATA_DIR: file name (date) -> file content, or NoFile
    pool,       \* the aiomysql pool: "none", "open", "closed"
    proc,       \* main_processor: position, locals and run number
    store,      \* the table latest_federal_documents: set of rows
    hist,       \* history of the process phase (what was submitted, applied, attempted)
    pipe,       \* position of run_full_pipeline
    fedDocs,    \* the table federal_documents of the database (db_tools.py:50)
    search      \* one call of search_federal_documents: position, arguments, result

vars == <<entry, session, dl, unit, rawData, pool, proc, store, hist, pipe, fedDocs, search>>

(***************************************************************************)
(* Bounds of the model.                                                    *)
(***************************************************************************)
\* largest total_pages the upstream reports when one date is fetched
MaxPages == 3
\* per_page, scaled down: a full page holds PageSize records
PageSize == 2
\* dates fetched when the fetch of a single date is studied
UnitDays == 1
\* largest total_pages the upstream reports when several dates run concurrently
ConcPages == 2
\* days_to_fetch of the pipeline run, scaled down from the default of 7
PipeDays == 2
\* number of snapshot files in RAW_DATA_DIR when main_processor is run alone
MaxFiles == 2
\* longest agencies list of a record when the normalizer is studied
MaxAgencies == 2
\* largest limit of a search, and latest publication date of a searched row
MaxLimit == 2
MaxDate == 2
\* largest days_to_fetch when the window of dates is studied
WindowDays == 2

\* the dates of a run that is made twice
RerunDates == {1, 2}

\* days_to_fetch when downloader.py is run as a program (downloader.py:141)
DaysToFetch == 3

\* None, for a text field and for document_number
Null == "<null>"
NoNumber == 0

NoFile == [shape |-> "nofile", date |-> 0, count |-> 0, results |-> <<>>]
NoData == [date |-> 0, count |-> 0, results |-> <<>>]

(***************************************************************************)
(* Upstream records.  A record is a JSON object (shape "dict") with the    *)
(* fields the processor reads, a missing field being Null / NoNumber, or   *)
(* a JSON value that is no object (shape "nondict").  agencies is missing, *)
(* a value that is no list, or a list of items that are objects (with or   *)
(* without raw_name) or other values.                                      *)
(***************************************************************************)
Agency(name) == [shape |-> "dict", has_raw_name |-> TRUE, raw_name |-> name]
AgencyNoName == [shape |-> "dict", has_raw_name |-> FALSE, raw_name |-> Null]
AgencyNoDict == [shape |-> "nondict", has_raw_name |-> FALSE, raw_name |-> Null]
AgenciesMissing == [shape |-> "missing", items |-> <<>>]
AgenciesNoList == [shape |-> "notlist", items |-> <<>>]
AgenciesList(items) == [shape |-> "list", items |-> items]

Doc(num, title, v, agencies) ==
    [shape |-> "dict", document_number |-> num, title |-> title,
     type |-> "Rule", abstract |-> v, publication_date |-> "2024-01-02",
     html_url |-> "h" \o v, pdf_url |-> "p" \o v,
     public_inspection_pdf_url |-> Null, excerpts |-> "e" \o v,
     agencies |-> agencies]

NonDictDoc == [Doc(NoNumber, Null, Null, AgenciesMissing) EXCEPT !.shape = "nondict"]

\* What the documents of the model hold.
DocXA == Doc(1, "A", "1", AgenciesList(<<Agency("EPA"), Agency("DOE")>>))
DocXB == Doc(1, "B", "2", AgenciesList(<<>>))
DocY == Doc(2, "A", "1", AgenciesList(<<AgencyNoName, Agency("DOE")>>))
DocN == Doc(NoNumber, "C", "1", AgenciesMissing)

\* A snapshot holds its records by reference: RecordOf(id) is the JSON value
\* of record id.  Records 1..5 are the hand-written ones above; the i-th
\* record of page p of date d is record DocNumber(d, p, i), a well-formed
\* document with that document_number.
DocNumber(d, p, i) == d * 100 + p * 10 + i

\* Records 2000 and 2001 have no agencies and agencies that is no list;
\* record 1000 + 100 * n + c has the agencies list of n items that c spells
\* in base 4 (first item first).
AgencyItem(k) ==
    CASE k = 0 -> Agency("EPA")
      [] k = 1 -> Agency("DOE")
      [] k = 2 -> AgencyNoName
      [] OTHER -> AgencyNoDict

RECURSIVE AgencyItems(_, _)
AgencyItems(c, n) ==
    IF n = 0 THEN <<>> ELSE <<AgencyItem(c % 4)>> \o AgencyItems(c \div 4, n - 1)

AgenciesIds ==
    {2000, 2001} \cup
    UNION { {1000 + 100 * n + c : c \in 0..(4 ^ n - 1)} : n \in 0..MaxAgencies }

RecordOf(id) ==
    CASE id = 1 -> DocXA
      [] id = 2 -> DocXB
      [] id = 3 -> DocY
      [] id = 4 -> DocN
      [] id = 5 -> NonDictDoc
      [] id = 2000 -> Doc(id, "A", "1", AgenciesMissing)
      [] id = 2001 -> Doc(id, "A", "1", AgenciesNoList)
      [] id >= 1000 ->
           Doc(id, "A", "1", AgenciesList(AgencyItems(id % 100, (id - 1000) \div 100)))
      [] OTHER -> Doc(id, "A", "1", AgenciesList(<<Agency("EPA"), Agency("DOE")>>))

\* the results list of page p of date d when the upstream serves n records
UpstreamPage(d, p, n) == [i \in 1..n |-> DocNumber(d, p, i)]

\* what one request can come back with: an exception of session.get /
\* raise_for_status / response.json, a falsy body, or a JSON object with
\* n results and, if has_total, a total_pages field
Responses(maxPages, sizes) ==
    {[kind |-> k, n |-> 0, has_total |-> FALSE, total_pages |-> 0] :
        k \in {"timeout", "http", "error", "empty"}}
    \cup
    {[kind |-> "ok", n |-> n, has_total |-> TRUE, total_pages |-> t] :
        n \in sizes, t \in 0..maxPages}
    \cup
    {[kind |-> "ok", n |-> n, has_total |-> FALSE, total_pages |-> 0] : n \in sizes}

(***************************************************************************)
(* fetch_documents_for_date (downloader.py:19-79).  Locals of one call:    *)
(*   current_page, total_pages, all_results, and pc, the suspension point: *)
(*   "request" (awaiting the response of page current_page), "sleep"       *)
(*   (awaiting the inter-page delay), "return" (the loop was left).        *)
(* FetchPage is one iteration of the while loop, from the response r of    *)
(* the request of l.current_page to the next suspension point.             *)
(***************************************************************************)
InitLocals == [pc |-> "request", current_page |-> 1, total_pages |-> 1, all_results |-> <<>>]

\* the except clauses return nothing of what was accumulated
FetchPageDropsOnError(l, d, r) ==
    IF r.kind \in {"timeout", "http", "error"}
    THEN [l EXCEPT !.pc = "return", !.all_results = <<>>]
    ELSE IF r.kind = "empty"
    THEN [l EXCEPT !.pc = "return"]
    ELSE
      LET results_on_page == UpstreamPage(d, l.current_page, r.n)
          all == l.all_results \o results_on_page
          total == IF l.current_page = 1
                   THEN (IF r.has_total THEN r.total_pages ELSE 1)
                   ELSE l.total_pages
      IN  IF l.current_page = 1 /\ total = 0 /\ results_on_page = <<>>
          THEN [l EXCEPT !.all_results = all, !.total_pages = total, !.pc = "return"]
          ELSE IF results_on_page = <<>> \/ l.current_page >= total
          THEN [l EXCEPT !.all_results = all, !.total_pages = total, !.pc = "return"]
          ELSE [l EXCEPT !.all_results = all, !.total_pages = total,
                         !.current_page = l.current_page + 1,
                         !.pc = IF total > 1 THEN "sleep"
                                ELSE IF l.current_page + 1 <= total THEN "request"
                                ELSE "return"]

\* total_pages is read from a key the body does not have: the default stays
FetchPageDefaultTotal(l, d, r) ==
    IF r.kind \in {"timeout", "http", "error", "empty"}
    THEN [l EXCEPT !.pc = "return"]
    ELSE
      LET results_on_page == UpstreamPage(d, l.current_page, r.n)
          all == l.all_results \o results_on_page
          total == 1
      IN  IF results_on_page = <<>> \/ l.current_page >= total
          THEN [l EXCEPT !.all_results = all, !.total_pages = total, !.pc = "return"]
          ELSE [l EXCEPT !.all_results = all, !.total_pages = total,
                         !.current_page = l.current_page + 1, !.pc = "request"]

\* current_page is not advanced: the same page is requested again
FetchPageRepeats(l, d, r) ==
    IF r.kind \in {"timeout", "http", "error", "empty"}
    THEN [l EXCEPT !.pc = "return"]
    ELSE
      LET results_on_page == UpstreamPage(d, l.current_page, r.n)
          all == l.all_results \o results_on_page
          total == IF l.current_page = 1
                   THEN (IF r.has_total THEN r.total_pages ELSE 1)
                   ELSE l.total_pages
      IN  IF results_on_page = <<>> \/ l.current_page >= total
          THEN [l EXCEPT !.all_results = all, !.total_pages = total, !.pc = "return"]
          ELSE [l EXCEPT !.all_results = all, !.total_pages = total, !.pc = "sleep"]

\* line 60 compares with >: one page beyond total_pages is requested
FetchPageOneMore(l, d, r) ==
    IF r.kind \in {"timeout", "http", "error", "empty"}
    THEN [l EXCEPT !.pc = "return"]
    ELSE
      LET results_on_page == UpstreamPage(d, l.current_page, r.n)
          all == l.all_results \o results_on_page
          total == IF l.current_page = 1
                   THEN (IF r.has_total THEN r.total_pages ELSE 1)
                   ELSE l.total_pages
      IN  IF results_on_page = <<>> \/ l.current_page > total
          THEN [l EXCEPT !.all_results = all, !.total_pages = total, !.pc = "return"]
          ELSE [l EXCEPT !.all_results = all, !.total_pages = total,
                         !.current_page = l.current_page + 1, !.pc = "request"]

\* line 64 is missing: the next page is requested at once
FetchPageNoDelay(l, d, r) ==
    IF r.kind \in {"timeout", "http", "error", "empty"}
    THEN [l EXCEPT !.pc = "return"]
    ELSE
      LET results_on_page == UpstreamPage(d, l.current_page, r.n)
          all == l.all_results \o results_on_page
          total == IF l.current_page = 1
                   THEN (IF r.has_total THEN r.total_pages ELSE 1)
                   ELSE l.total_pages
      IN  IF results_on_page = <<>> \/ l.current_page >= total
          THEN [l EXCEPT !.all_results = all, !.total_pages = total, !.pc = "return"]
          ELSE [l EXCEPT !.all_results = all, !.total_pages = total,
                         !.current_page = l.current_page + 1, !.pc = "request"]

\* total_pages is read from the body of every page
FetchPageTotalEveryPage(l, d, r) ==
    IF r.kind \in {"timeout", "http", "error", "empty"}
    THEN [l EXCEPT !.pc = "return"]
    ELSE
      LET results_on_page == UpstreamPage(d, l.current_page, r.n)
          all == l.all_results \o results_on_page
          total == IF r.has_total THEN r.total_pages ELSE 1
      IN  IF results_on_page = <<>> \/ l.current_page >= total
          THEN [l EXCEPT !.all_results = all, !.total_pages = total, !.pc = "return"]
          ELSE [l EXCEPT !.all_results = all, !.total_pages = total,
                         !.current_page = l.current_page + 1, !.pc = "sleep"]

FetchPage(l, d, r) ==
    IF r.kind \in {"timeout", "http", "error"}
    THEN \* the three except clauses: log and break
         [l EXCEPT !.pc = "return"]
    ELSE IF r.kind = "empty"
    THEN \* if not data: break
         [l EXCEPT !.pc = "return"]
    ELSE
      LET results_on_page == UpstreamPage(d, l.current_page, r.n)
          all == l.all_results \o results_on_page
          total == IF l.current_page = 1
                   THEN (IF r.has_total THEN r.total_pages ELSE 1)
                   ELSE l.total_pages
      IN  IF l.current_page = 1 /\ total = 0 /\ results_on_page = <<>>
          THEN [l EXCEPT !.all_results = all, !.total_pages = total, !.pc = "return"]
          ELSE IF results_on_page = <<>> \/ l.current_page >= total
          THEN [l EXCEPT !.all_results = all, !.total_pages = total, !.pc = "return"]
          ELSE [l EXCEPT !.all_results = all, !.total_pages = total,
                         !.current_page = l.current_page + 1,
                         !.pc = IF total > 1 THEN "sleep"
                                ELSE IF l.current_page + 1 <= total THEN "request"
                                ELSE "return"]

\* the while condition, evaluated when the loop comes round after the delay
LoopCheck(l) ==
    IF l.current_page <= l.total_pages THEN [l EXCEPT !.pc = "request"]
                                       ELSE [l EXCEPT !.pc = "return"]

\* the value fetch_documents_for_date returns
Snapshot(d, all_results) ==
    [date |-> d, count |-> Len(all_results), results |-> all_results]

\* fetch_documents_for_date as a function of what the upstream answers:
\* the snapshot returned when the i-th request gets responses[i]
RECURSIVE RunFetch(_, _, _, _)
RunFetch(l, d, responses, i) ==
    IF l.pc = "return" \/ i > Len(responses) THEN Snapshot(d, l.all_results)
    ELSE LET after == FetchPage(l, d, responses[i])
         IN  RunFetch(IF after.pc = "sleep" THEN LoopCheck(after) ELSE after,
                      d, responses, i + 1)

FetchDate(d, responses) == RunFetch(InitLocals, d, responses, 1)

\* the answers of an upstream that has exactly the pages of these sizes for
\* the date and serves them all
CompletePages(sizes) ==
    [p \in 1..Len(sizes) |->
        [kind |-> "ok", n |-> sizes[p], has_total |-> TRUE, total_pages |-> Len(sizes)]]

(***************************************************************************)
(* save_raw_data (downloader.py:82-96).                                    *)
(***************************************************************************)
\* the guard of line 85: nothing is written for an empty snapshot
SaveSkipsNever(data) == FALSE

SaveSkips(data) == data.count = 0

\* one file name for every date
FileNameShared(date_str) == 1

\* lines 89-90: the file of a date, named by the date string alone
FileName(date_str) == date_str

\* only the results list is written, as a JSON array
ArtifactResultsOnly(data) ==
    [shape |-> "nondict", date |-> 0, count |-> 0, results |-> data.results]

\* the artifact json.dumps(data_for_date) leaves in <date>.json
Artifact(data) ==
    [shape |-> "ok", date |-> data.date, count |-> data.count, results |-> data.results]

\* a file opened with mode 'w' whose write did not complete
TornFile == [shape |-> "badjson", date |-> 0, count |-> 0, results |-> <<>>]

\* How lines 91-96 can end: the write completes; aiofiles.open raises an
\* IOError (nothing is touched); f.write raises an IOError after the file
\* was truncated; json.dumps or the write raises another exception.
WriteOutcomes == {"ok", "open_ioerror", "write_ioerror", "other_error"}

\* the content of <date>.json after lines 91-96
Written(file, data, how) ==
    IF how = "ok" THEN Artifact(data)
    ELSE IF how = "open_ioerror" THEN file
    ELSE TornFile

\* no except clause: an IOError leaves save_raw_data as well
SaveRaisesOnIOError(how) == how # "ok"

\* except IOError: every other exception leaves save_raw_data
SaveRaises(how) == how = "other_error"

(***************************************************************************)
(* One fetch_and_save_for_day coroutine (downloader.py:114-122).           *)
(*   pc: "none" (no coroutine), "created" (task not yet run), "request",   *)
(*   "sleep", "write" (awaiting aiofiles), "done", "raised".               *)
(* h is the history of the unit, recorded when entry.trace: requests       *)
(* (requests issued), reported (total_pages of the first page's body, -1   *)
(* if it had none), sizes (the number of results of every page served),    *)
(* aborted (the page whose request or decoding raised, 0 if none), cut (a  *)
(* falsy body ended the loop), saved (how save_raw_data ended), delays     *)
(* (inter-page delays that were awaited to their end), later (when          *)
(* entry.later: the total_pages of the body of the last page after the      *)
(* first that had one, -1 if none).                                         *)
(***************************************************************************)
NoTrace ==
    [requests |-> 0, reported |-> -1, sizes |-> <<>>, aborted |-> 0, cut |-> FALSE,
     saved |-> "none", delays |-> 0, later |-> -1]

NoUnit ==
    [pc |-> "none", current_page |-> 1, total_pages |-> 1, all_results |-> <<>>,
     daily_data |-> NoData, h |-> NoTrace]

Dates == DOMAIN unit

Finished(d) == unit[d].pc \in {"done", "raised"}

Traced(u, h) == IF entry.trace THEN [u EXCEPT !.h = h] ELSE u

\* after the loop: the snapshot is returned (the locals of the fetch are
\* gone), then save_raw_data runs up to its first await
AfterFetch(u, d) ==
    LET data == Snapshot(d, u.all_results)
        v == [u EXCEPT !.daily_data = data, !.current_page = 1, !.total_pages = 1,
                       !.all_results = <<>>]
    IN  IF SaveSkips(data)
        THEN Traced([v EXCEPT !.pc = "done"], [u.h EXCEPT !.saved = "skipped"])
        ELSE [v EXCEPT !.pc = "write"]

\* the locals of the fetch inside the unit record
Locals(u) == [pc |-> u.pc, current_page |-> u.current_page,
              total_pages |-> u.total_pages, all_results |-> u.all_results]

WithLocals(u, l, d) ==
    LET v == [u EXCEPT !.current_page = l.current_page, !.total_pages = l.total_pages,
                       !.all_results = l.all_results, !.pc = l.pc]
    IN  IF l.pc = "return" THEN AfterFetch(v, d)
        ELSE IF l.pc = "request" THEN Traced(v, [u.h EXCEPT !.requests = u.h.requests + 1])
        ELSE v

\* the task starts: runs to the first session.get
UnitStart(d) ==
    /\ unit[d].pc = "created"
    /\ unit' = [unit EXCEPT ![d] = WithLocals(unit[d], InitLocals, d)]
    /\ UNCHANGED <<entry, session, dl, rawData, pool, proc, store, hist, pipe, fedDocs, search>>

\* the response of the pending request arrives (or the request raises)
UnitResponse(d) ==
    /\ unit[d].pc = "request"
    /\ \E r \in Responses(entry.pages, entry.sizes) :
         /\ session # "open" => r.kind = "error"
         /\ LET u == unit[d]
                seen == Traced(u, [u.h EXCEPT
                          !.sizes = IF r.kind = "ok" THEN Append(u.h.sizes, r.n)
                                    ELSE u.h.sizes,
                          !.reported = IF r.kind = "ok" /\ u.current_page = 1 /\ r.has_total
                                       THEN r.total_pages ELSE u.h.reported,
                          !.aborted = IF r.kind \in {"timeout", "http", "error"}
                                      THEN u.current_page ELSE 0,
                          !.cut = (r.kind = "empty"),
                          !.later = IF /\ entry.later /\ r.kind = "ok"
                                       /\ u.current_page > 1 /\ r.has_total
                                    THEN r.total_pages ELSE u.h.later])
            IN  unit' = [unit EXCEPT ![d] = WithLocals(seen, FetchPage(Locals(u), d, r), d)]
    /\ UNCHANGED <<entry, session, dl, rawData, pool, proc, store, hist, pipe, fedDocs, search>>

\* asyncio.sleep(0.2) is over
UnitWake(d) ==
    /\ unit[d].pc = "sleep"
    /\ LET woken == Traced(unit[d], [unit[d].h EXCEPT !.delays = unit[d].h.delays + 1])
       IN  unit' = [unit EXCEPT ![d] = WithLocals(woken, LoopCheck(Locals(unit[d])), d)]
    /\ UNCHANGED <<entry, session, dl, rawData, pool, proc, store, hist, pipe, fedDocs, search>>

\* aiofiles.open / f.write(json.dumps(...)) complete or raise
UnitWrite(d) ==
    /\ unit[d].pc = "write"
    /\ \E how \in WriteOutcomes :
         /\ rawData' = [rawData EXCEPT ![FileName(d)] =
                           Written(rawData[FileName(d)], unit[d].daily_data, how)]
         /\ unit' = [unit EXCEPT ![d] =
                       Traced([unit[d] EXCEPT !.pc = IF SaveRaises(how) THEN "raised" ELSE "done"],
                              [unit[d].h EXCEPT !.saved = how])]
    /\ UNCHANGED <<entry, session, dl, pool, proc, store, hist, pipe, fedDocs, search>>

(***************************************************************************)
(* main_downloader (downloader.py:98-129).                                 *)
(*   dl: "idle", "gathering" (awaiting asyncio.gather), "returned",        *)
(*   "raised".                                                             *)
(***************************************************************************)
\* asyncio.gather(*tasks): "pending", or how the await ends
GatherFailFast ==
    IF \E d \in Dates : unit[d].pc = "raised" THEN "raised"
    ELSE IF \A d \in Dates : Finished(d) THEN "returned"
    ELSE "pending"

\* the tasks are started but not awaited
GatherNoWait == "returned"

Gather ==
    \* return_exceptions=True: exceptions are results, all tasks are awaited
    IF \A d \in Dates : Finished(d) THEN "returned" ELSE "pending"

\* the timedelta is dropped: every task gets today
TargetDateNoOffset(today, i) == today

\* line 110: today - timedelta(days=i), dates being numbered by the day
TargetDate(today, i) == today - i

\* lines 107-124: the dates the tasks are created for, i in range(days_to_fetch).
\* The tasks are kept by date: two tasks of one date would leave fewer
\* than days_to_fetch units.
Window(today, days_to_fetch) == {TargetDate(today, i) : i \in 0..(days_to_fetch - 1)}

DownloaderCanStart ==
    /\ dl = "idle"
    /\ \/ entry.program = "downloader"
       \/ entry.program = "pipeline" /\ pipe = "downloading"

DlStart ==
    /\ DownloaderCanStart
    /\ \/ \* the session opens, one coroutine per date is created and gathered
          /\ session' = "open"
          /\ dl' = "gathering"
          /\ unit' = [d \in Window(entry.today, entry.days) |->
                          [NoUnit EXCEPT !.pc = "created"]]
       \/ \* aiohttp.ClientSession() raises
          /\ dl' = "raised"
          /\ UNCHANGED <<session, unit>>
    /\ UNCHANGED <<entry, rawData, pool, proc, store, hist, pipe, fedDocs, search>>

DlFinish ==
    /\ dl = "gathering"
    /\ Gather # "pending"
    /\ session' = "closed"
    /\ dl' = Gather
    /\ UNCHANGED <<entry, unit, rawData, pool, proc, store, hist, pipe, fedDocs, search>>

(***************************************************************************)
(* processor.py: the normalizer (lines 72-94).                             *)
(***************************************************************************)
\* lines 76-81: the first agency's raw_name, else None
AgencyNameOfLast(agencies) ==
    IF agencies.shape = "list" /\ Len(agencies.items) > 0
    THEN LET last_agency == agencies.items[Len(agencies.items)]
         IN  IF last_agency.shape = "dict" /\ last_agency.has_raw_name
             THEN last_agency.raw_name ELSE Null
    ELSE Null

AgencyName(agencies) ==
    IF agencies.shape = "list" /\ Len(agencies.items) > 0
    THEN LET first_agency == agencies.items[1]
         IN  IF first_agency.shape = "dict" /\ first_agency.has_raw_name
             THEN first_agency.raw_name ELSE Null
    ELSE Null

\* lines 83-94: the tuple appended to documents_to_insert
Normalize(doc) ==
    [document_number |-> doc.document_number, title |-> doc.title, type |-> doc.type,
     abstract |-> doc.abstract, publication_date |-> doc.publication_date,
     html_url |-> doc.html_url, pdf_url |-> doc.pdf_url,
     public_inspection_pdf_url |-> doc.public_inspection_pdf_url,
     agency_name |-> AgencyName(doc.agencies), excerpts |-> doc.excerpts]

\* doc.get raises AttributeError on a record that is no object
NormalizeRaises(docs) == \E i \in 1..Len(docs) : RecordOf(docs[i]).shape # "dict"

NormalizeAll(docs) == [i \in 1..Len(docs) |-> Normalize(RecordOf(docs[i]))]

(***************************************************************************)
(* The table latest_federal_documents (lines 16-29) is a bag of rows; the  *)
(* statement of lines 103-119 applied to one row.                          *)
(***************************************************************************)
EmptyTable == << >>

Rows(table) == DOMAIN table

Copies(table, row) == IF row \in DOMAIN table THEN table[row] ELSE 0

AddRow(table, row) ==
    [r \in DOMAIN table \cup {row} |-> Copies(table, r) + (IF r = row THEN 1 ELSE 0)]

\* INSERT without the primary key: the row is added whatever the table holds
InsertNoKey(table, row) == AddRow(table, row)

\* INSERT IGNORE: a row whose key exists is dropped
InsertIgnore(table, row) ==
    IF \E r \in Rows(table) : r.document_number = row.document_number
    THEN table ELSE AddRow(table, row)

\* ON DUPLICATE KEY UPDATE that leaves out title
UpsertKeepsTitle(table, row) ==
    LET same == {r \in Rows(table) : r.document_number = row.document_number}
        others == [r \in Rows(table) \ same |-> table[r]]
    IN  IF same = {} THEN AddRow(table, row)
        ELSE AddRow(others, [row EXCEPT !.title = (CHOOSE r \in same : TRUE).title])

\* INSERT ... ON DUPLICATE KEY UPDATE <every non-key column> = VALUES(...)
Upsert(table, row) ==
    LET same == {r \in Rows(table) : r.document_number = row.document_number}
        others == [r \in Rows(table) \ same |-> table[r]]
    IN  AddRow(others, row)

\* The primary key is NOT NULL: a row without document_number is refused.
RowRefused(row) == row.document_number = NoNumber

(***************************************************************************)
(* cur.executemany (line 125), autocommit: the rows are applied one by     *)
(* one; the first refused row, or a store failure at row failAt, raises    *)
(* and leaves the rows before it applied.                                  *)
(***************************************************************************)
RECURSIVE ExecuteMany(_, _, _, _)
ExecuteMany(table, rows, i, failAt) ==
    IF i > Len(rows) THEN [table |-> table, ok |-> TRUE]
    ELSE IF i = failAt \/ RowRefused(rows[i]) THEN [table |-> table, ok |-> FALSE]
    ELSE ExecuteMany(Upsert(table, rows[i]), rows, i + 1, failAt)

(***************************************************************************)
(* process_file_and_insert (lines 55-134) on one file.  fault is what the  *)
(* store does during the call: acquire (the store gives no connection:     *)
(* pool.acquire raises) and failAt (executemany fails at that row, 0:      *)
(* never).  Returns the table, the returned count and whether the call     *)
(* raised.  A file of shape "noresults" is a JSON object without the key   *)
(* "results".                                                              *)
(***************************************************************************)
NoFault == [acquire |-> FALSE, failAt |-> 0]

ReachesStore(file) ==
    /\ file.shape = "ok"
    /\ file.results # <<>>
    /\ ~NormalizeRaises(file.results)

Faults(file) ==
    {NoFault, [acquire |-> TRUE, failAt |-> 0]}
    \cup IF ReachesStore(file)
         THEN {[acquire |-> FALSE, failAt |-> k] : k \in 1..Len(file.results)}
         ELSE {}

\* the connection is acquired before the file is read
ProcessFileAcquiresFirst(table, file, fault) ==
    IF fault.acquire
    THEN [table |-> table, ret |-> 0, raised |-> TRUE]
    ELSE IF file.shape \notin {"ok", "noresults"} \/ file.results = <<>>
    THEN [table |-> table, ret |-> 0, raised |-> FALSE]
    ELSE IF NormalizeRaises(file.results)
    THEN [table |-> table, ret |-> 0, raised |-> TRUE]
    ELSE LET documents_to_insert == NormalizeAll(file.results)
             done == ExecuteMany(table, documents_to_insert, 1, fault.failAt)
         IN  [table |-> done.table,
              ret |-> IF done.ok THEN Len(documents_to_insert) ELSE 0,
              raised |-> FALSE]

\* the count returned is the number of rows the statement inserted
ProcessFileReturnsInserted(table, file, fault) ==
    IF file.shape # "ok" \/ file.results = <<>>
    THEN [table |-> table, ret |-> 0, raised |-> FALSE]
    ELSE IF NormalizeRaises(file.results) \/ fault.acquire
    THEN [table |-> table, ret |-> 0, raised |-> TRUE]
    ELSE LET documents_to_insert == NormalizeAll(file.results)
             done == ExecuteMany(table, documents_to_insert, 1, fault.failAt)
             keys(t) == {r.document_number : r \in Rows(t)}
         IN  [table |-> done.table,
              ret |-> IF done.ok THEN Cardinality(keys(done.table) \ keys(table)) ELSE 0,
              raised |-> FALSE]

ProcessFile(table, file, fault) ==
    IF file.shape \notin {"ok", "noresults"}
    THEN \* lines 57-66: open, read, json.loads or .get raised
         [table |-> table, ret |-> 0, raised |-> FALSE]
    ELSE IF file.shape = "noresults" \/ file.results = <<>>
    THEN \* lines 63, 68-70: .get gave the default [], or the list is empty
         [table |-> table, ret |-> 0, raised |-> FALSE]
    ELSE IF NormalizeRaises(file.results)
    THEN [table |-> table, ret |-> 0, raised |-> TRUE]
    ELSE IF fault.acquire
    THEN [table |-> table, ret |-> 0, raised |-> TRUE]
    ELSE LET documents_to_insert == NormalizeAll(file.results)
             done == ExecuteMany(table, documents_to_insert, 1, fault.failAt)
         IN  [table |-> done.table,
              ret |-> IF done.ok THEN Len(documents_to_insert) ELSE 0,
              raised |-> FALSE]

(***************************************************************************)
(* main_processor (lines 136-168).                                         *)
(*   proc.pc: "idle", "pool" (awaiting get_db_pool), "table" (awaiting     *)
(*   create_table_if_not_exists), "loop" (about to process                 *)
(*   raw_files[idx]), "returned", "raised".                                *)
(***************************************************************************)
NoProc ==
    [pc |-> "idle", run |-> 1, raw_files |-> <<>>, idx |-> 1,
     total_docs_processed |-> 0, files_processed_count |-> 0]

\* lines 157-163 without the except clause: the exception leaves the loop
AfterFileNoCatch(p, res) ==
    IF res.raised
    THEN [p EXCEPT !.pc = "raised"]
    ELSE IF res.ret > 0
    THEN [p EXCEPT !.idx = p.idx + 1,
                   !.total_docs_processed = p.total_docs_processed + res.ret,
                   !.files_processed_count = p.files_processed_count + 1]
    ELSE [p EXCEPT !.idx = p.idx + 1]

\* a file that returned no documents ends the loop
AfterFileBreaks(p, res) ==
    IF res.raised
    THEN [p EXCEPT !.idx = p.idx + 1]
    ELSE IF res.ret > 0
    THEN [p EXCEPT !.idx = p.idx + 1,
                   !.total_docs_processed = p.total_docs_processed + res.ret,
                   !.files_processed_count = p.files_processed_count + 1]
    ELSE [p EXCEPT !.idx = Len(p.raw_files) + 1]

\* files_processed_count counts every file whose call returned
AfterFileCountsAll(p, res) ==
    IF res.raised
    THEN [p EXCEPT !.idx = p.idx + 1]
    ELSE [p EXCEPT !.idx = p.idx + 1,
                   !.total_docs_processed = p.total_docs_processed + res.ret,
                   !.files_processed_count = p.files_processed_count + 1]

\* lines 157-163: the body of the for loop after the call returned or raised
AfterFile(p, res) ==
    IF res.raised
    THEN \* except Exception: log, next file
         [p EXCEPT !.idx = p.idx + 1]
    ELSE IF res.ret > 0
    THEN [p EXCEPT !.idx = p.idx + 1,
                   !.total_docs_processed = p.total_docs_processed + res.ret,
                   !.files_processed_count = p.files_processed_count + 1]
    ELSE [p EXCEPT !.idx = p.idx + 1]

\* the .json files of RAW_DATA_DIR
JsonFiles == {f \in DOMAIN rawData : rawData[f].shape # "nofile"}

Orderings(S) ==
    {o \in [1..Cardinality(S) -> S] : \A i, j \in 1..Cardinality(S) : i # j => o[i] # o[j]}

\* os.listdir: an arbitrary order, the same for an unchanged directory
Listings ==
    IF hist.order # <<>> /\ {hist.order[i] : i \in 1..Len(hist.order)} = JsonFiles
    THEN {hist.order}
    ELSE Orderings(JsonFiles)

\* history of the process phase, recorded when entry.trace: order (the last
\* listing), attempted (files the loop of this run went through), transient
\* (the store failed at some point), after1 (the table after the first run),
\* latest (the last row applied per document_number), rets (how the call
\* on each file of this run ended), last (the latest call: file, failure
\* injected, table before the call), raw1 (RAW_DATA_DIR when the run started)
NoHist ==
    [order |-> <<>>, attempted |-> {}, transient |-> FALSE, after1 |-> EmptyTable,
     latest |-> << >>, rets |-> << >>,
     last |-> [file |-> 0, fault |-> NoFault, before |-> EmptyTable],
     raw1 |-> << >>]

ProcessorCanStart ==
    /\ proc.pc = "idle"
    /\ \/ entry.program \in {"processor", "store"}
       \/ entry.program = "pipeline" /\ pipe = "processing"

\* main_processor is called: get_db_pool is awaited
ProcStart ==
    /\ ProcessorCanStart
    /\ proc' = [proc EXCEPT !.pc = "pool"]
    /\ UNCHANGED <<entry, session, dl, unit, rawData, pool, store, hist, pipe, fedDocs, search>>

\* aiomysql.create_pool returns or raises (get_db_pool re-raises)
ProcGetPool ==
    /\ proc.pc = "pool"
    /\ \/ /\ pool' = "open"
          /\ proc' = [proc EXCEPT !.pc = "table"]
       \/ /\ pool' = pool
          /\ proc' = [proc EXCEPT !.pc = "raised"]
    /\ UNCHANGED <<entry, session, dl, unit, rawData, store, hist, pipe, fedDocs, search>>

\* CREATE TABLE IF NOT EXISTS returns, and the directory is listed, or raises
ProcCreateTable ==
    /\ proc.pc = "table"
    /\ \/ \E o \in Listings :
            /\ proc' = [proc EXCEPT !.pc = "loop", !.raw_files = o, !.idx = 1]
            /\ hist' = [hist EXCEPT !.order = o, !.attempted = {}]
       \/ /\ proc' = [proc EXCEPT !.pc = "raised"]
          /\ hist' = hist
    /\ UNCHANGED <<entry, session, dl, unit, rawData, pool, store, pipe, fedDocs, search>>

\* the rows executemany applied before it returned or raised
AppliedRows(file, fault) ==
    IF ~ReachesStore(file) \/ fault.acquire THEN <<>>
    ELSE LET rows == [i \in 1..Len(file.results) |-> Normalize(RecordOf(file.results[i]))]
             bad == {i \in 1..Len(rows) : i = fault.failAt \/ rows[i].document_number = NoNumber}
             n == IF bad = {} THEN Len(rows)
                  ELSE (CHOOSE i \in bad : \A j \in bad : i <= j) - 1
         IN  SubSeq(rows, 1, n)

RECURSIVE Latest(_, _, _)
Latest(latest, rows, i) ==
    IF i > Len(rows) THEN latest
    ELSE Latest([k \in DOMAIN latest \cup {rows[i].document_number} |->
                    IF k = rows[i].document_number THEN rows[i] ELSE latest[k]],
                rows, i + 1)

\* one iteration of the for loop: process_file_and_insert on raw_files[idx]
ProcFile ==
    /\ proc.pc = "loop"
    /\ proc.idx <= Len(proc.raw_files)
    /\ LET f == proc.raw_files[proc.idx]
           file == rawData[f]
       IN  \E fault \in Faults(file) :
             LET res == ProcessFile(store, file, fault)
             IN  /\ store' = res.table
                 /\ proc' = AfterFile(proc, res)
                 /\ hist' = IF ~entry.trace THEN hist ELSE [hist EXCEPT
                       !.attempted = hist.attempted \cup {f},
                       !.transient = hist.transient \/ fault # NoFault,
                       !.latest = Latest(hist.latest, AppliedRows(file, fault), 1),
                       !.rets = [g \in DOMAIN hist.rets \cup {f} |->
                                   IF g = f THEN [ret |-> res.ret, raised |-> res.raised,
                                                  fault |-> fault # NoFault]
                                   ELSE hist.rets[g]],
                       !.last = [file |-> f, fault |-> fault, before |-> store]]
    /\ UNCHANGED <<entry, session, dl, unit, rawData, pool, pipe, fedDocs, search>>

\* the loop is over: pool.close(), pool.wait_closed()
ProcFinish ==
    /\ proc.pc = "loop"
    /\ proc.idx > Len(proc.raw_files)
    /\ pool' = "closed"
    /\ proc' = [proc EXCEPT !.pc = "returned"]
    /\ UNCHANGED <<entry, session, dl, unit, rawData, store, hist, pipe, fedDocs, search>>

\* processor.py is run a second time over the same files
ProcAgain ==
    /\ entry.program = "processor"
    /\ proc.pc = "returned"
    /\ proc.run = 1
    /\ proc' = [NoProc EXCEPT !.run = 2]
    /\ pool' = "none"
    /\ hist' = [hist EXCEPT !.after1 = store, !.attempted = {}, !.rets = << >>,
                             !.last = NoHist.last]
    /\ UNCHANGED <<entry, session, dl, unit, rawData, store, pipe, fedDocs, search>>

(***************************************************************************)
(* run_full_pipeline (run_pipeline.py:14-33).                              *)
(*   pipe: "idle", "downloading", "processing", "finished" (line 33),      *)
(*   "aborted" (the return of line 23 or 31).                              *)
(***************************************************************************)
PipeStart ==
    /\ entry.program = "pipeline"
    /\ pipe = "idle"
    /\ pipe' = "downloading"
    /\ UNCHANGED <<entry, session, dl, unit, rawData, pool, proc, store, hist, fedDocs, search>>

\* lines 18-23 without the return of line 23: the processor runs all the same
AfterDownloaderNoReturn(outcome) == "processing"

\* lines 18-23: where run_full_pipeline goes when await main_downloader() ends
AfterDownloader(outcome) ==
    IF outcome = "returned" THEN "processing"
    ELSE \* except Exception: log and return
         "aborted"

\* lines 26-33 without the return of line 31: success is logged all the same
AfterProcessorNoReturn(outcome) == "finished"

\* lines 26-33: where run_full_pipeline goes when await main_processor() ends
AfterProcessor(outcome) ==
    IF outcome = "returned" THEN "finished"
    ELSE \* except Exception: log and return
         "aborted"

\* await main_downloader() ends; the frames of the finished coroutines are gone
PipeAfterDownload ==
    /\ pipe = "downloading"
    /\ dl \in {"returned", "raised"}
    /\ pipe' = AfterDownloader(dl)
    /\ unit' = [d \in Dates |-> IF Finished(d) THEN [NoUnit EXCEPT !.pc = unit[d].pc]
                                ELSE unit[d]]
    /\ UNCHANGED <<entry, session, dl, rawData, pool, proc, store, hist, fedDocs, search>>

\* await main_processor() ends
PipeAfterProcess ==
    /\ pipe = "processing"
    /\ proc.pc \in {"returned", "raised"}
    /\ pipe' = AfterProcessor(proc.pc)
    /\ UNCHANGED <<entry, session, dl, unit, rawData, pool, proc, store, hist, fedDocs, search>>

\* downloader.py is run a second time, the same day: same dates, the
\* raw-data area as the first run left it
DlAgain ==
    /\ entry.program = "downloader"
    /\ dl \in {"returned", "raised"}
    /\ proc.run = 1
    /\ dl' = "idle"
    /\ session' = "none"
    /\ unit' = [d \in Dates |-> NoUnit]
    /\ proc' = [NoProc EXCEPT !.run = 2]
    /\ hist' = [hist EXCEPT !.raw1 = rawData]
    /\ UNCHANGED <<entry, rawData, pool, store, pipe, fedDocs, search>>

(***************************************************************************)
(* db_tools.py: search_federal_documents (lines 30-100), one SELECT on the *)
(* table federal_documents.  A text column holds NULL or a string of       *)
(* characters; a date column holds NULL (NoDate) or a day 1..MaxDate.      *)
(*   search.pc: "idle", "query" (connected, cursor.execute pending),       *)
(*   "done" (returned), "raised".                                          *)
(***************************************************************************)
NullText == [null |-> TRUE, chars |-> <<>>]
Text(chars) == [null |-> FALSE, chars |-> chars]
NoDate == 0

\* the table does not exist
NoTable == [exists |-> FALSE, rows |-> {}]

SearchRow(num, title, abstract, type, date, agency) ==
    [document_number |-> num, title |-> title, type |-> type, abstract |-> abstract,
     publication_date |-> date, html_url |-> Text(<<"h">>), agency_name |-> agency,
     excerpts |-> NullText]

\* column LIKE '%kw%': NULL never matches
Like(text, kw) ==
    /\ ~text.null
    /\ \E i \in 0..(Len(text.chars) - Len(kw)) : SubSeq(text.chars, i + 1, i + Len(kw)) = kw

\* the arguments of a call; an argument left out, None or empty is falsy:
\* <<>> for keywords and agency_name, Null for document_type, NoDate for dates
NoArgs ==
    [keywords |-> <<>>, document_type |-> Null, start_date |-> NoDate,
     end_date |-> NoDate, agency_name |-> <<>>, limit |-> 1]

\* the conditions are joined by OR
MatchesAny(row, a) ==
    \/ a.keywords # <<>> /\ ( \/ Like(row.title, a.keywords)
                             \/ Like(row.abstract, a.keywords)
                             \/ Like(row.excerpts, a.keywords) )
    \/ a.document_type # Null /\ row.type = a.document_type
    \/ a.start_date # NoDate /\ row.publication_date # NoDate
                             /\ row.publication_date >= a.start_date
    \/ a.end_date # NoDate /\ row.publication_date # NoDate
                           /\ row.publication_date <= a.end_date
    \/ a.agency_name # <<>> /\ Like(row.agency_name, a.agency_name)
    \/ a = [NoArgs EXCEPT !.limit = a.limit]

\* lines 50-69: WHERE 1=1 and one AND condition per argument that is truthy
Matches(row, a) ==
    /\ a.keywords # <<>> => \/ Like(row.title, a.keywords)
                            \/ Like(row.abstract, a.keywords)
                            \/ Like(row.excerpts, a.keywords)
    /\ a.document_type # Null => row.type = a.document_type
    /\ a.start_date # NoDate => /\ row.publication_date # NoDate
                                /\ row.publication_date >= a.start_date
    /\ a.end_date # NoDate => /\ row.publication_date # NoDate
                              /\ row.publication_date <= a.end_date
    /\ a.agency_name # <<>> => Like(row.agency_name, a.agency_name)

\* lines 86-89: a date becomes its ISO text, NULL stays None
IsoFormat(date) == [null |-> date = NoDate, iso |-> date]

\* the seven columns of the SELECT, as the dictionary cursor returns them
Document(row) ==
    [document_number |-> row.document_number, title |-> row.title, type |-> row.type,
     abstract |-> row.abstract, publication_date |-> IsoFormat(row.publication_date),
     html_url |-> row.html_url, agency_name |-> row.agency_name]

\* the query without its LIMIT clause: every matching row, in date order
SelectNoLimit(rows, a) ==
    LET matching == {r \in rows : Matches(r, a)}
        n == Cardinality(matching)
    IN  {o \in [1..n -> matching] :
            /\ \A i, j \in 1..n : i # j => o[i] # o[j]
            /\ \A i, j \in 1..n : i < j => o[i].publication_date >= o[j].publication_date}

\* lines 72-74, 80-81: ORDER BY publication_date DESC LIMIT limit; NULL dates
\* come last, rows of the same date in any order
Select(rows, a) ==
    LET matching == {r \in rows : Matches(r, a)}
        total == Cardinality(matching)
        n == IF a.limit < total THEN a.limit ELSE total
    IN  {o \in [1..n -> matching] :
            /\ \A i, j \in 1..n : i # j => o[i] # o[j]
            /\ \A i, j \in 1..n : i < j => o[i].publication_date >= o[j].publication_date
            /\ \A r \in matching \ {o[i] : i \in 1..n} :
                   \A i \in 1..n : o[i].publication_date >= r.publication_date}

ConnectionFailed == <<[error |-> "Database connection failed."]>>
NoDocuments == <<[message |-> "No documents found matching your criteria."]>>
QueryFailed == <<[error |-> "An error occurred while searching the database (sync)"]>>

\* the marker is appended to the documents found
ReturnedWithMarker(db_results) ==
    [i \in 1..Len(db_results) |-> Document(db_results[i])] \o NoDocuments

\* lines 82-90: the value returned when fetchall gave db_results
Returned(db_results) ==
    IF db_results = <<>> THEN NoDocuments
    ELSE [i \in 1..Len(db_results) |-> Document(db_results[i])]

NoSearch ==
    [pc |-> "idle", args |-> NoArgs, result |-> <<>>, connected |-> FALSE,
     failed |-> FALSE, seen |-> EmptyTable]

\* the arguments a call is made with
SearchArgs ==
    IF entry.program = "search"
    THEN [keywords : {<<>>, <<"a">>, <<"b", "a">>},
          document_type : {Null, "Rule"},
          start_date : 0..MaxDate,
          end_date : 0..MaxDate,
          agency_name : {<<>>, <<"a">>},
          limit : 1..MaxLimit]
    ELSE {[NoArgs EXCEPT !.limit = l] : l \in 1..MaxLimit}

\* lines 42-44: get_db_connection returns a connection or None
SearchCall ==
    /\ entry.program \in {"search", "store"}
    /\ search.pc = "idle"
    /\ \E a \in SearchArgs :
         \/ search' = [search EXCEPT !.pc = "done", !.args = a, !.result = ConnectionFailed]
         \/ search' = [search EXCEPT !.pc = "query", !.args = a, !.connected = TRUE]
    /\ UNCHANGED <<entry, session, dl, unit, rawData, pool, proc, store, hist, pipe, fedDocs>>

\* lines 79-100: cursor.execute and fetchall return rows or raise Error
SearchExecute ==
    /\ search.pc = "query"
    /\ \/ \* mysql.connector.Error: no such table, or the server failed
          search' = [search EXCEPT !.pc = "done", !.failed = TRUE, !.result = QueryFailed,
                                   !.seen = store]
       \/ /\ fedDocs.exists
          /\ \E db_results \in Select(fedDocs.rows, search.args) :
                search' = [search EXCEPT !.pc = "done", !.result = Returned(db_results),
                                         !.seen = store]
    /\ UNCHANGED <<entry, session, dl, unit, rawData, pool, proc, store, hist, pipe, fedDocs>>

NextSearch ==
    \/ SearchCall
    \/ SearchExecute

(***************************************************************************)
(* Specifications, one per program.                                        *)
(***************************************************************************)
NextFetch ==
    \/ DlStart
    \/ DlFinish
    \/ \E d \in Dates : UnitStart(d)
    \/ \E d \in Dates : UnitResponse(d)
    \/ \E d \in Dates : UnitWake(d)
    \/ \E d \in Dates : UnitWrite(d)

NextProc ==
    \/ ProcStart
    \/ ProcGetPool
    \/ ProcCreateTable
    \/ ProcFile
    \/ ProcFinish

NextPipe ==
    \/ PipeStart
    \/ PipeAfterDownload
    \/ PipeAfterProcess

Next == NextPipe \/ NextFetch \/ NextProc

\* What the table federal_documents may hold when a program starts: no
\* program of the repository creates it or writes it.
SearchRows ==
    { SearchRow(1, Text(<<"a">>), NullText, "Rule", 1, Text(<<"a">>)),
      SearchRow(2, Text(<<"b", "a">>), NullText, "Notice", MaxDate, NullText),
      SearchRow(3, NullText, Text(<<"a", "b">>), "Rule", MaxDate, Text(<<"b", "a">>)),
      SearchRow(4, Text(<<"b">>), NullText, "Rule", NoDate, Text(<<"b">>)) }

Tables(program) ==
    IF program = "search"
    THEN {NoTable} \cup {[exists |-> TRUE, rows |-> R] : R \in SUBSET SearchRows}
    ELSE IF program = "store"
    THEN {NoTable, [exists |-> TRUE, rows |-> {}],
          [exists |-> TRUE, rows |-> {r \in SearchRows : r.document_number = 4}]}
    ELSE {NoTable}

\* The inputs of a run (entry): the program started, the UTC date it is
\* started on (dates are numbered so that the default window is 1..days),
\* days_to_fetch, what the upstream can answer (the largest total_pages,
\* the page sizes), and what the histories record (trace; later: also the
\* total_pages that the pages after the first carry).
Run(program, days, pages, sizes, trace) ==
    [program |-> program, today |-> days, days |-> days, pages |-> pages,
     sizes |-> sizes, trace |-> trace, later |-> FALSE]

InitWith(e, files) ==
    /\ entry = e
    /\ session = "none"
    /\ dl = "idle"
    /\ unit = [d \in 1..e.days |-> NoUnit]
    /\ rawData = files
    /\ pool = "none"
    /\ proc = NoProc
    /\ store = EmptyTable
    /\ hist = [NoHist EXCEPT !.raw1 = files]
    /\ pipe = "idle"
    /\ search = NoSearch
    /\ fedDocs \in Tables(e.program)

\* run_pipeline.py: main_downloader then main_processor, on an empty RAW_DATA_DIR
Init ==
    InitWith(Run("pipeline", PipeDays, ConcPages, {0, PageSize}, FALSE),
             [d \in 1..PipeDays |-> NoFile])

Spec == Init /\ [][Next]_vars

\* downloader.py run as a program: DaysToFetch concurrent units
InitFetch ==
    InitWith(Run("downloader", DaysToFetch, ConcPages, {0, PageSize}, TRUE),
             [d \in 1..DaysToFetch |-> NoFile])

SpecFetch == InitFetch /\ [][NextFetch]_vars

\* the fetch of a date against every upstream behaviour
InitUnit ==
    InitWith(Run("downloader", UnitDays, MaxPages, {0, 1, PageSize}, TRUE),
             [d \in 1..UnitDays |-> NoFile])

SpecUnit == InitUnit /\ [][NextFetch]_vars

\* the fetch of one date, the history recording what every page reports
InitTotals ==
    InitWith([Run("downloader", 1, MaxPages, {0, 1, PageSize}, TRUE) EXCEPT !.later = TRUE],
             [d \in 1..1 |-> NoFile])

SpecTotals == InitTotals /\ [][NextFetch]_vars

\* the same, every request completing (with a response, an error or the
\* timeout of 120 s, line 40), every delay ending and every task being run
SpecUnitLive ==
    /\ InitTotals
    /\ [][NextFetch]_vars
    /\ \A d \in 1..1 :
          WF_vars(UnitStart(d)) /\ WF_vars(UnitResponse(d)) /\ WF_vars(UnitWake(d))

\* downloader.py run with days_to_fetch in 0..WindowDays, on one of two
\* consecutive days, on an empty RAW_DATA_DIR
InitWindow ==
    \E n \in 0..WindowDays, t \in WindowDays..(WindowDays + 1) :
        InitWith([Run("downloader", n, ConcPages, {0, PageSize}, FALSE) EXCEPT !.today = t],
                 [d \in 1..(WindowDays + 1) |-> NoFile])

SpecWindow == InitWindow /\ [][NextFetch]_vars

\* processor.py run as a program, twice, over the files of RAW_DATA_DIR
JsonFile(results) ==
    [shape |-> "ok", date |-> 0, count |-> Len(results), results |-> results]

FileUniverse ==
    { [NoFile EXCEPT !.shape = "unreadable"],
      [NoFile EXCEPT !.shape = "badjson"],
      [NoFile EXCEPT !.shape = "nondict"],
      [NoFile EXCEPT !.shape = "noresults"],
      JsonFile(<<>>),
      JsonFile(<<1>>),
      JsonFile(<<2>>),
      JsonFile(<<3, 4, 1>>),
      JsonFile(<<3, 5>>) }

InitProc ==
    \E files \in [1..MaxFiles -> FileUniverse] :
        InitWith(Run("processor", 0, 0, {}, TRUE), files)

SpecProc == InitProc /\ [][NextProc \/ ProcAgain]_vars

\* processor.py run over one file of one record, for every shape of agencies
InitNorm ==
    \E id \in AgenciesIds :
        InitWith(Run("processor", 0, 0, {}, TRUE),
                 [f \in 1..1 |-> JsonFile(<<id>>)])

SpecNorm == InitNorm /\ [][NextProc]_vars

\* what an earlier run can have left in the file of date d: nothing, a
\* truncated file, or the snapshot of a page of 1 or PageSize records
EarlierFiles(d) ==
    {NoFile, TornFile} \cup
    {Artifact(Snapshot(d, UpstreamPage(d, 1, n))) : n \in {1, PageSize}}

\* run_pipeline.py run again over the dates of an earlier run, on the
\* raw-data area that run left
InitRerun ==
    \E files \in [RerunDates -> UNION {EarlierFiles(d) : d \in RerunDates}] :
        /\ \A d \in RerunDates : files[d] \in EarlierFiles(d)
        /\ InitWith(Run("pipeline", Cardinality(RerunDates), ConcPages, {0, 1, PageSize}, FALSE),
                    files)

SpecRerun == InitRerun /\ [][Next]_vars

\* downloader.py run twice over the same dates
InitRefetch ==
    InitWith(Run("downloader", Cardinality(RerunDates), ConcPages, {0, PageSize}, TRUE),
             [d \in RerunDates |-> NoFile])

SpecRefetch == InitRefetch /\ [][NextFetch \/ DlAgain]_vars

\* search_federal_documents called on what the table federal_documents holds
InitSearch ==
    InitWith(Run("search", 0, 0, {}, FALSE),
             <<>>)

SpecSearch == InitSearch /\ [][NextSearch]_vars

\* processor.py run over the files of RAW_DATA_DIR while the application
\* calls search_federal_documents on the same database
InitStore ==
    \E files \in [1..MaxFiles -> {JsonFile(<<1>>), JsonFile(<<3, 4, 1>>)}] :
        InitWith(Run("store", 0, 0, {}, TRUE),
                 files)

SpecStore == InitStore /\ [][NextProc \/ NextSearch]_vars

(***************************************************************************)
(* Properties.                                                             *)
(***************************************************************************)
\* the records the upstream served for date d, page after page
RECURSIVE ServedFrom(_, _, _)
ServedFrom(d, sizes, p) ==
    IF p > Len(sizes) THEN <<>>
    ELSE UpstreamPage(d, p, sizes[p]) \o ServedFrom(d, sizes, p + 1)

Served(d) == ServedFrom(d, unit[d].h.sizes, 1)

\* fetch_documents_for_date has returned for date d
Fetched(d) == unit[d].pc \in {"write", "done", "raised"}

\* C2: fetch_documents_for_date never raises; when the request or the
\* decoding of page k fails, no further request is made and the snapshot
\* returned holds exactly the records of pages 1..k-1, in page order, with
\* count the number of those records.
C2_ErrorReturnsPartialSnapshot ==
    \A d \in Dates :
        /\ unit[d].pc = "raised" => unit[d].h.saved = "other_error"
        /\ (Fetched(d) /\ unit[d].h.aborted > 0) =>
              /\ Len(unit[d].h.sizes) = unit[d].h.aborted - 1
              /\ unit[d].h.requests = unit[d].h.aborted
              /\ unit[d].daily_data.date = d
              /\ unit[d].daily_data.results = Served(d)
              /\ unit[d].daily_data.count = Len(Served(d))

\* a fetch that failed on page 3 and returned the records of pages 1 and 2
C2_Witness ==
    \E d \in Dates :
        /\ Fetched(d)
        /\ unit[d].h.aborted = 3
        /\ unit[d].daily_data.count = PageSize + 1

\* C7: when the first page reports total_pages = P and every page served is
\* non-empty and no request fails, exactly P requests are made (never one
\* beyond P) and the snapshot is the concatenation of the P pages, count
\* being the sum of the page sizes.
C7_PaginationStopsAtTotal ==
    \A d \in Dates :
        LET h == unit[d].h
        IN  /\ h.reported >= 1 => h.requests <= h.reported
            /\ ( /\ Fetched(d)
                 /\ h.reported >= 1
                 /\ h.aborted = 0 /\ ~h.cut
                 /\ \A p \in 1..Len(h.sizes) : h.sizes[p] > 0 ) =>
                    /\ h.requests = h.reported
                    /\ Len(h.sizes) = h.reported
                    /\ unit[d].daily_data.results = Served(d)
                    /\ unit[d].daily_data.count = Len(Served(d))

\* total_pages = 3, two full pages and a partial one: three requests
C7_Witness ==
    \E d \in Dates :
        /\ Fetched(d)
        /\ unit[d].h.reported = 3
        /\ unit[d].h.sizes = <<PageSize, PageSize, 1>>
        /\ unit[d].h.requests = 3
        /\ unit[d].daily_data.count = 2 * PageSize + 1

\* the artifact that holds every record the upstream served for date d
FullArtifact(d) ==
    [shape |-> "ok", date |-> d, count |-> Len(Served(d)), results |-> Served(d)]

\* the unit of date d succeeded: every page was fetched without failure and
\* save_raw_data did not fail
UnitSucceeded(d) ==
    /\ Finished(d)
    /\ unit[d].h.aborted = 0 /\ ~unit[d].h.cut
    /\ unit[d].h.saved \in {"ok", "skipped"}

\* the fetch of date d failed on a page after the first
FailedMidPagination(d) == Fetched(d) /\ unit[d].h.aborted >= 2

C6_EmptySnapshotNotSaved ==
    \A d \in Dates :
        (Fetched(d) /\ unit[d].daily_data.count = 0) =>
            /\ unit[d].pc = "done"
            /\ unit[d].h.saved = "skipped"
            /\ rawData[d] = NoFile

\* the run is over: one date failed on its first page, one had no records,
\* and neither has an artifact, while a third date was saved
C6_Witness ==
    /\ dl = "returned"
    /\ \E d1, d2, d3 \in Dates :
          /\ unit[d1].h.aborted = 1 /\ rawData[d1] = NoFile
          /\ unit[d2].h.aborted = 0 /\ unit[d2].h.sizes = <<0>> /\ rawData[d2] = NoFile
          /\ rawData[d3].shape = "ok"

\* C8: main_downloader returns only after every unit has returned or raised;
\* an exception raised in a unit never ends main_downloader or the session
\* while a sibling unit is still running, and is never raised to the caller
\* (main_downloader raises only when no unit exists).
C8_GatherWaitsForAllUnits ==
    /\ dl = "returned" => \A d \in Dates : Finished(d)
    /\ dl = "raised" => \A d \in Dates : unit[d].pc = "none"
    /\ \A d \in Dates :
          unit[d].pc \in {"created", "request", "sleep", "write"} =>
              dl = "gathering" /\ session = "open"

\* a unit raised, and main_downloader returned after the others were saved
C8_Witness ==
    /\ dl = "returned"
    /\ \E d \in Dates :
          /\ unit[d].pc = "raised"
          /\ \A e \in Dates \ {d} : unit[e].pc = "done" /\ unit[e].h.saved = "ok"

\* every row of the table, counted once per copy
RowCount(table) ==
    LET RECURSIVE Sum(_)
        Sum(S) == IF S = {} THEN 0
                  ELSE LET r == CHOOSE x \in S : TRUE IN table[r] + Sum(S \ {r})
    IN  Sum(DOMAIN table)

\* C3: after any sequence of upsert batches the table holds at most one row
\* per document_number, and for every document_number ever applied the row
\* of that key equals, field by field, the row applied last with that key.
C3_UpsertByKey ==
    /\ \A r1, r2 \in Rows(store) : r1.document_number = r2.document_number => r1 = r2
    /\ \A r \in Rows(store) : store[r] = 1 /\ r.document_number \in DOMAIN hist.latest
    /\ \A k \in DOMAIN hist.latest :
          \E r \in Rows(store) :
              /\ r.document_number = k
              /\ r.title = hist.latest[k].title
              /\ r.type = hist.latest[k].type
              /\ r.abstract = hist.latest[k].abstract
              /\ r.publication_date = hist.latest[k].publication_date
              /\ r.html_url = hist.latest[k].html_url
              /\ r.pdf_url = hist.latest[k].pdf_url
              /\ r.public_inspection_pdf_url = hist.latest[k].public_inspection_pdf_url
              /\ r.agency_name = hist.latest[k].agency_name
              /\ r.excerpts = hist.latest[k].excerpts

\* document 1 was ingested with title "A", then with title "B": one row, "B"
C3_Witness ==
    /\ proc.pc = "returned"
    /\ proc.run = 1
    /\ ~hist.transient
    /\ proc.raw_files = <<1, 2>>
    /\ rawData[1].results = <<1>>
    /\ rawData[2].results = <<2>>
    /\ Rows(store) = {Normalize(DocXB)}
    /\ RowCount(store) = 1

\* C4: a second run of main_processor over the same unchanged files, the
\* store failing in neither run, leaves the table as the first run left it.
C4_SecondRunChangesNothing ==
    (proc.run = 2 /\ proc.pc = "returned" /\ ~hist.transient) => store = hist.after1

\* two runs over two files that hold three rows, one of them refused
C4_Witness ==
    /\ proc.run = 2
    /\ proc.pc = "returned"
    /\ ~hist.transient
    /\ hist.attempted = {1, 2}
    /\ Cardinality(Rows(store)) = 2
    /\ store = hist.after1

\* the table main_processor's loop leaves when it goes through the files in
\* the order raw_files, the store never failing
RECURSIVE RunLoop(_, _)
RunLoop(p, table) ==
    IF p.pc # "loop" \/ p.idx > Len(p.raw_files) THEN table
    ELSE LET res == ProcessFile(table, rawData[p.raw_files[p.idx]], NoFault)
         IN  RunLoop(AfterFile(p, res), res.table)

FinalTable(raw_files) ==
    RunLoop([NoProc EXCEPT !.pc = "loop", !.raw_files = raw_files], EmptyTable)

\* the rows the files of RAW_DATA_DIR hold
FileRows ==
    UNION { {Normalize(RecordOf(rawData[f].results[i])) : i \in 1..Len(rawData[f].results)} :
            f \in {g \in JsonFiles : ReachesStore(rawData[g])} }

\* no two rows of the files share a document_number and differ
NoConflict ==
    \A r1, r2 \in FileRows : r1.document_number = r2.document_number => r1 = r2

\* C5 as stated: whatever the order in which the files are processed, the
\* final table is the same, also when rows of different files share a
\* document_number.
C5_Original ==
    (proc.run = 1 /\ proc.pc = "returned" /\ ~hist.transient) =>
        \A o \in Orderings(JsonFiles) : FinalTable(o) = store

\* C5, amended: whatever the order in which the files are processed, the
\* final table is the same, provided that the rows that share a
\* document_number are equal (of two rows that differ, the one applied last
\* stays).
C5_OrderImmaterialWithoutConflict ==
    (proc.run = 1 /\ proc.pc = "returned" /\ ~hist.transient /\ NoConflict) =>
        \A o \in Orderings(JsonFiles) : FinalTable(o) = store

\* two files that share document 1, with the same fields, were processed
C5_Witness ==
    /\ proc.run = 1
    /\ proc.pc = "returned"
    /\ ~hist.transient
    /\ NoConflict
    /\ \E f, g \in JsonFiles :
          /\ f # g
          /\ rawData[f].results = <<1>>
          /\ rawData[g].results = <<3, 4, 1>>
    /\ Rows(store) = {Normalize(DocXA), Normalize(DocY)}

\* process_file_and_insert ends well on this file when the store does not fail
Healthy(file) ==
    /\ ReachesStore(file)
    /\ \A i \in 1..Len(file.results) : ~RowRefused(Normalize(RecordOf(file.results[i])))

\* C10: a failure on one file (read, parse, normalization, upsert) never
\* ends the loop nor makes main_processor raise: main_processor raises only
\* before the first file, it returns only after every discovered file was
\* attempted, and every file that is well-formed and met no store failure
\* had all its rows submitted, whatever happened to the files before it.
C10_FileFailureIsolated ==
    /\ proc.pc = "returned" => hist.attempted = JsonFiles
    /\ proc.pc = "raised" => hist.attempted = {} /\ proc.raw_files = <<>>
    /\ proc.pc = "loop" =>
          hist.attempted = {proc.raw_files[i] : i \in 1..(proc.idx - 1)}
    /\ \A f \in DOMAIN hist.rets :
          (Healthy(rawData[f]) /\ ~hist.rets[f].fault) =>
              /\ ~hist.rets[f].raised
              /\ hist.rets[f].ret = Len(rawData[f].results)

\* the first file raised in the normalizer, the second one was upserted
C10_Witness ==
    /\ proc.pc = "returned"
    /\ Len(proc.raw_files) >= 2
    /\ hist.rets[proc.raw_files[1]].raised
    /\ hist.rets[proc.raw_files[2]].ret > 0
    /\ RowCount(store) > 0

\* C9: the process phase starts only after main_downloader has returned and
\* every unit has finished (no unit can write while a file is read or
\* upserted); when main_downloader raises, main_processor is never started
\* and run_full_pipeline returns (it never raises).
C9_PhasesInSequence ==
    /\ proc.pc # "idle" =>
          /\ dl = "returned"
          /\ session = "closed"
          /\ \A d \in Dates : Finished(d)
    /\ pipe = "processing" => dl = "returned"
    /\ dl = "raised" => proc.pc = "idle" /\ pipe \in {"downloading", "aborted"}
    /\ pipe \in {"idle", "downloading", "processing", "finished", "aborted"}

\* the loop of main_processor is at its second file, after a download that
\* saved two artifacts
C9_Witness ==
    /\ pipe = "processing"
    /\ proc.pc = "loop"
    /\ proc.idx = 2
    /\ \A d \in Dates : rawData[d].shape = "ok"

\* the table after the rows are applied one after the other, once each
RECURSIVE ApplyRows(_, _, _)
ApplyRows(table, rows, i) ==
    IF i > Len(rows) THEN table ELSE ApplyRows(Upsert(table, rows[i]), rows, i + 1)

\* the merge statement of the call on this file failed
MergeFailed(file, fault) ==
    \/ fault.failAt # 0
    \/ \E i \in 1..Len(file.results) : RowRefused(Normalize(RecordOf(file.results[i])))

\* C11: when the merge statement of a file succeeds, process_file_and_insert
\* returns the number of rows submitted (one per record of the file), whether
\* they were inserted or updated; when the statement fails it returns 0 and
\* does not raise, and the statement is not run again: the table holds the
\* rows applied before the failure and nothing of the rest.
C11_ReturnsRowsSubmitted ==
    LET f == hist.last.file
        fault == hist.last.fault
    IN  (f # 0 /\ ReachesStore(rawData[f]) /\ ~fault.acquire) =>
            /\ ~hist.rets[f].raised
            /\ ~MergeFailed(rawData[f], fault) =>
                  /\ hist.rets[f].ret = Len(rawData[f].results)
                  /\ store = ApplyRows(hist.last.before, NormalizeAll(rawData[f].results), 1)
            /\ MergeFailed(rawData[f], fault) =>
                  /\ hist.rets[f].ret = 0
                  /\ store = ApplyRows(hist.last.before, AppliedRows(rawData[f], fault), 1)

\* second run: a file whose only row was an update returned 1, then the
\* statement of a three-row file failed on its second row and returned 0
C11_Witness ==
    /\ proc.run = 2
    /\ proc.pc = "returned"
    /\ proc.raw_files = <<1, 2>>
    /\ rawData[1].results = <<1>>
    /\ rawData[2].results = <<3, 4, 1>>
    /\ hist.rets[1].ret = 1
    /\ hist.rets[2].ret = 0
    /\ hist.last.before = store

\* C12: when opening or writing the artifact of a date fails (the IOError
\* of aiofiles.open or of f.write), save_raw_data swallows the failure: the
\* unit of that date ends without an exception, and the units still running
\* are not cancelled (main_downloader keeps gathering, the session stays
\* open).  A unit raises only on an exception that is no IOError.
C12_WriteFailureSwallowed ==
    \A d \in Dates :
        /\ unit[d].h.saved \in {"open_ioerror", "write_ioerror"} =>
              /\ unit[d].pc = "done"
              /\ \A e \in Dates \ {d} :
                    /\ unit[e].pc \in {"created", "request", "sleep", "write", "done", "raised"}
                    /\ ~Finished(e) => dl = "gathering" /\ session = "open"
        /\ unit[d].pc = "raised" => unit[d].h.saved = "other_error"

\* the write of date 1 failed after the file was truncated, the open of
\* date 2 failed, and date 3 was fetched and saved after both failures
C12_Witness ==
    /\ dl = "returned"
    /\ unit[1].h.saved = "write_ioerror" /\ unit[1].pc = "done" /\ rawData[1] = TornFile
    /\ unit[2].h.saved = "open_ioerror" /\ unit[2].pc = "done" /\ rawData[2] = NoFile
    /\ unit[3].h.saved = "ok" /\ rawData[3] = FullArtifact(3)

\* C13: a missing field of a record (a missing document_number included) is
\* normalized to null without raising and never aborts the processing of
\* the other records of its file: when main_processor has returned and the
\* store never failed, every record that has a document_number, in a file
\* whose records are all objects, has its row in the table.
C13_MissingFieldNeverAborts ==
    (proc.pc = "returned" /\ ~hist.transient) =>
        \A f \in JsonFiles :
            ReachesStore(rawData[f]) =>
                \A i \in 1..Len(rawData[f].results) :
                    LET row == Normalize(RecordOf(rawData[f].results[i]))
                    IN  row.document_number # NoNumber =>
                            \E r \in Rows(store) : r.document_number = row.document_number

\* C14: the agency_name of a row is the raw_name of the first element of
\* the record's agencies list when the list is non-empty and its first
\* element is an object that has the field, and null in every other case
\* (agencies missing, not a list, empty, first element no object, first
\* element without the field); the elements after the first do not count.
C14_AgencyExtraction ==
    \A r \in Rows(store) :
        LET agencies == RecordOf(r.document_number).agencies
            items == agencies.items
        IN  /\ agencies.shape = "missing" => r.agency_name = Null
            /\ agencies.shape = "notlist" => r.agency_name = Null
            /\ (agencies.shape = "list" /\ items = <<>>) => r.agency_name = Null
            /\ (agencies.shape = "list" /\ items # <<>>) =>
                  /\ items[1].shape # "dict" => r.agency_name = Null
                  /\ (items[1].shape = "dict" /\ ~items[1].has_raw_name) =>
                        r.agency_name = Null
                  /\ (items[1].shape = "dict" /\ items[1].has_raw_name) =>
                        r.agency_name = items[1].raw_name

\* a record whose agencies are EPA then DOE was stored with agency_name EPA
C14_Witness ==
    \E r \in Rows(store) :
        LET items == RecordOf(r.document_number).agencies.items
        IN  /\ RecordOf(r.document_number).agencies.shape = "list"
            /\ Len(items) = 2
            /\ items[1] = Agency("EPA")
            /\ items[2] = Agency("DOE")
            /\ r.agency_name = "EPA"

\* the files of this run whose call returned a positive count
Counted == {f \in DOMAIN hist.rets : ~hist.rets[f].raised /\ hist.rets[f].ret > 0}

RECURSIVE SumRets(_)
SumRets(S) ==
    IF S = {} THEN 0
    ELSE LET f == CHOOSE g \in S : TRUE IN hist.rets[f].ret + SumRets(S \ {f})

\* C15: at every point of the file loop of main_processor (and when it
\* returns), total_docs_processed is the sum of the counts returned for the
\* files processed so far that returned a positive count, and
\* files_processed_count is the number of those files; a file that was
\* skipped, failed to parse, raised or failed to upsert adds to neither.
C15_RunningTotals ==
    proc.pc \in {"loop", "returned"} =>
        /\ DOMAIN hist.rets = {proc.raw_files[i] : i \in 1..(proc.idx - 1)}
        /\ proc.total_docs_processed = SumRets(Counted)
        /\ proc.files_processed_count = Cardinality(Counted)

\* one file returned 1, the other one failed to upsert: totals 1 and 1
C15_Witness ==
    /\ proc.pc = "returned"
    /\ Len(proc.raw_files) = 2
    /\ \E f, g \in DOMAIN hist.rets :
          /\ hist.rets[f].ret = 1
          /\ hist.rets[g].ret = 0 /\ ReachesStore(rawData[g])
    /\ proc.total_docs_processed = 1
    /\ proc.files_processed_count = 1

\* C16: the search reads the table the process phase writes: every document
\* a search returns is a row of latest_federal_documents as the Upsert
\* Writer left it, and when the search has no filter and the table holds
\* no more rows than the limit, every row upserted before the search is
\* returned by it.
C16_SearchReadsStore ==
    (search.pc = "done" /\ search.connected /\ ~search.failed) =>
        /\ \A i \in 1..Len(search.result) :
              "document_number" \in DOMAIN search.result[i] =>
                  \E r \in Rows(search.seen) :
                      r.document_number = search.result[i].document_number
        /\ Cardinality(Rows(search.seen)) <= search.args.limit =>
              \A r \in Rows(search.seen) :
                  \E i \in 1..Len(search.result) :
                      /\ "document_number" \in DOMAIN search.result[i]
                      /\ search.result[i].document_number = r.document_number

\* the row satisfies every filter the call supplies
Satisfies(r, a) ==
    /\ \/ a.keywords = <<>>
       \/ \E text \in {r.title, r.abstract, r.excerpts} : Like(text, a.keywords)
    /\ a.document_type \in {Null, r.type}
    /\ \/ a.start_date = NoDate
       \/ r.publication_date \in a.start_date..MaxDate
    /\ \/ a.end_date = NoDate
       \/ r.publication_date \in 1..a.end_date
    /\ \/ a.agency_name = <<>>
       \/ Like(r.agency_name, a.agency_name)

Columns ==
    {"document_number", "title", "type", "abstract", "publication_date", "html_url",
     "agency_name"}

C18_Original ==
    [][\A d \in Dates : rawData[d] # NoFile => rawData'[d] = rawData[d]]_vars

\* C18, amended: once the artifact of a date has been written it is never
\* deleted, and nothing changes it but a later run's save_raw_data of the
\* same date with at least one record, which replaces it by the new
\* snapshot (or leaves it truncated when the write fails); the process
\* phase and a later fetch of the date that returns no record leave it as
\* it is.
C18_ArtifactKeptUntilRewritten ==
    [][\A d \in Dates :
          rawData[d] # NoFile =>
              /\ rawData'[d] # NoFile
              /\ rawData'[d] # rawData[d] =>
                    /\ unit[d].pc = "write" /\ unit'[d].pc \in {"done", "raised"}
                    /\ unit[d].daily_data.count > 0
                    /\ rawData'[d] \in {Artifact(unit[d].daily_data), TornFile}
                    /\ proc.pc = "idle"]_vars

\* the run has finished: date 1, saved with a full page by the earlier
\* run, was fetched again and its artifact is unchanged, while the
\* artifact of date 2 was replaced by a shorter one
C18_Witness ==
    /\ pipe = "finished"
    /\ hist.raw1[1].shape = "ok"
    /\ hist.raw1[1].count = PageSize
    /\ hist.raw1[2].count = PageSize
    /\ unit[1].pc = "done"
    /\ rawData[1] = hist.raw1[1]
    /\ rawData[2].shape = "ok"
    /\ rawData[2].count = 1

\* C19: when save_raw_data(date, snapshot) succeeds with count > 0, the
\* file named after the date holds exactly that snapshot (date, count,
\* results) whatever it held before, the files of the other dates are
\* unchanged, and saving a snapshot the file already holds changes nothing.
C19_OverwriteByDate ==
    [][\A d \in Dates :
          (unit[d].pc = "write" /\ unit'[d].pc = "done" /\ unit'[d].h.saved = "ok") =>
              /\ unit[d].daily_data.count > 0
              /\ rawData'[d].shape = "ok"
              /\ rawData'[d].date = d
              /\ rawData'[d].count = unit[d].daily_data.count
              /\ rawData'[d].results = unit[d].daily_data.results
              /\ \A e \in Dates \ {d} : rawData'[e] = rawData[e]
              /\ rawData[d] = Artifact(unit[d].daily_data) => rawData' = rawData]_vars

\* the second run saved one page for date 1 over the two pages of the first
C19_Witness ==
    /\ proc.run = 2
    /\ hist.raw1[1].shape = "ok"
    /\ hist.raw1[1].count = 2 * PageSize
    /\ unit[1].pc = "done"
    /\ unit[1].h.saved = "ok"
    /\ rawData[1].shape = "ok"
    /\ rawData[1].count = PageSize
    /\ rawData[1].results = unit[1].daily_data.results

\* C20: within one date the pages are requested in the order 1, 2, 3, ...
\* with no gap and no repeat: the k-th request is the request of page k,
\* it is issued only when the responses of pages 1..k-1 have been received
\* and their results appended, and while it is pending (or the delay
\* runs) no other request of the date exists.
C20_PagesInOrder ==
    \A d \in Dates :
        LET u == unit[d]
        IN  /\ u.pc = "request" =>
                  /\ u.current_page = u.h.requests
                  /\ Len(u.h.sizes) = u.current_page - 1
                  /\ u.all_results = Served(d)
            /\ u.pc = "sleep" =>
                  /\ u.current_page = u.h.requests + 1
                  /\ Len(u.h.sizes) = u.h.requests
                  /\ u.all_results = Served(d)
            /\ Fetched(d) =>
                  /\ u.h.requests >= 1
                  /\ Len(u.h.sizes) \in {u.h.requests - 1, u.h.requests}

\* page 3 is being requested, after the two full pages before it were appended
C20_Witness ==
    \E d \in Dates :
        /\ unit[d].pc = "request"
        /\ unit[d].current_page = 3
        /\ unit[d].h.requests = 3
        /\ unit[d].h.sizes = <<PageSize, PageSize>>
        /\ Len(unit[d].all_results) = 2 * PageSize

\* the bound of the pagination loop that the first page's body sets: its
\* total_pages, or the default 1 when it has none
FirstPageBound(h) == IF h.reported >= 0 THEN h.reported ELSE 1

\* C21: the bound of the pagination loop is taken from the body of the first
\* page only: once page 1 was served, the bound in use is what page 1
\* reported whatever total_pages the later pages carry, and no request is
\* made beyond it; and when page 1 reports total_pages = 0 with no result,
\* the fetch ends after that single request with a snapshot of count 0.
C21_TotalFromFirstPage ==
    \A d \in Dates :
        LET u == unit[d]
            h == u.h
        IN  /\ (u.pc \in {"request", "sleep"} /\ h.sizes # <<>>) =>
                  /\ u.total_pages = FirstPageBound(h)
                  /\ u.current_page <= FirstPageBound(h)
            /\ h.reported >= 1 => h.requests <= h.reported
            /\ (h.sizes # <<>> /\ h.reported = 0 /\ h.sizes[1] = 0) =>
                  /\ Fetched(d)
                  /\ h.requests = 1
                  /\ u.daily_data.count = 0
                  /\ u.daily_data.results = <<>>

\* page 1 reported 3 pages, page 2 carried total_pages = 1, and page 3 was
\* requested all the same
C21_Witness ==
    \E d \in Dates :
        /\ unit[d].h.reported = 3
        /\ unit[d].h.later = 1
        /\ unit[d].pc = "request"
        /\ unit[d].current_page = 3
        /\ unit[d].total_pages = 3

\* C22: the inter-page delay is awaited exactly between two consecutive
\* requests of a date: when the k-th request is pending or the fetch has
\* returned after k requests, k - 1 delays have been awaited, one before
\* each of the requests 2..k (none before page 1, none after the last
\* page); a delay runs only after a page that is not the last one, when
\* page 1 reported more than one page; a date of a single page has none.
C22_DelayBetweenPages ==
    \A d \in Dates :
        LET u == unit[d]
            h == u.h
        IN  /\ u.pc \in {"none", "created"} => h.delays = 0 /\ h.requests = 0
            /\ u.pc = "request" => h.delays = h.requests - 1
            /\ u.pc = "sleep" =>
                  /\ h.delays = h.requests - 1
                  /\ h.reported > 1
                  /\ h.requests < h.reported
                  /\ u.current_page = h.requests + 1
            /\ Fetched(d) => h.delays = h.requests - 1
            /\ h.reported <= 1 => h.delays = 0 /\ u.pc # "sleep"

\* three pages were fetched and two delays awaited; the fetch has returned
C22_Witness ==
    \E d \in Dates :
        /\ Fetched(d)
        /\ unit[d].h.reported = 3
        /\ unit[d].h.requests = 3
        /\ unit[d].h.delays = 2
        /\ unit[d].h.sizes = <<PageSize, 1, PageSize>>

\* C23: main_downloader(days_to_fetch = N), started on the UTC date today,
\* runs exactly N units, one for each of the dates today, today - 1, ...,
\* today - (N - 1); it returns only when the unit of every date of the
\* window has fetched, every snapshot carries the date of its unit and is
\* saved under that date, and no file of a date outside the window is
\* written; for N = 0 there is no unit, no request, and nothing is written.
C23_WindowOfDates ==
    dl \in {"gathering", "returned"} =>
        /\ Dates = (entry.today - entry.days + 1)..entry.today
        /\ Cardinality(Dates) = entry.days
        /\ dl = "returned" => \A d \in Dates : Fetched(d)
        /\ \A d \in Dates : Fetched(d) => unit[d].daily_data.date = d
        /\ \A f \in DOMAIN rawData :
              rawData[f] # NoFile =>
                  /\ f \in Dates
                  /\ rawData[f].shape = "ok" =>
                        rawData[f].date = f /\ rawData[f].results = unit[f].daily_data.results
        /\ entry.days = 0 => unit = << >> /\ \A f \in DOMAIN rawData : rawData[f] = NoFile

\* a run of WindowDays days on day WindowDays + 1 has saved every date of
\* its window, and nothing for the day before the window
C23_Witness ==
    /\ dl = "returned"
    /\ entry.days = WindowDays
    /\ entry.today = WindowDays + 1
    /\ \A d \in 2..(WindowDays + 1) : rawData[d].shape = "ok" /\ rawData[d].date = d
    /\ rawData[1] = NoFile

\* C24: main_processor obtains the pool, then ensures the table, and only
\* then lists, reads or upserts a file: the table is ensured only on an
\* open pool, the files are listed only when the table was ensured, and the
\* table is written and the loop advances only inside the loop, the pool
\* being open; when the pool or the table creation fails main_processor
\* raises with no file listed or read and nothing upserted, and
\* run_full_pipeline then ends aborted, never finished.
C24_SetupBeforeFiles ==
    [][ /\ (proc'.pc = "table" /\ proc.pc # "table") => proc.pc = "pool" /\ pool' = "open"
        /\ (proc'.pc = "loop" /\ proc.pc # "loop") => proc.pc = "table" /\ pool = "open"
        /\ proc'.raw_files # proc.raw_files => proc.pc = "table" /\ proc'.pc = "loop"
        /\ (store' # store \/ proc'.idx # proc.idx) => proc.pc = "loop" /\ pool = "open"
        /\ (proc'.pc = "raised" /\ proc.pc # "raised") =>
              /\ proc.pc \in {"pool", "table"}
              /\ proc'.raw_files = <<>> /\ proc'.idx = 1
              /\ store' = EmptyTable
        /\ (proc.pc = "raised" /\ pipe' # pipe) => pipe = "processing" /\ pipe' = "aborted"
        /\ pipe' = "finished" => proc'.pc = "returned" ]_vars

\* the download saved an artifact, the pool was obtained, the table creation
\* failed: the run ended aborted with nothing read and nothing upserted
C24_Witness ==
    /\ pipe = "aborted"
    /\ dl = "returned"
    /\ proc.pc = "raised"
    /\ pool = "open"
    /\ proc.raw_files = <<>>
    /\ store = EmptyTable
    /\ \E d \in Dates : rawData[d].shape = "ok"

\* the file deserializes to an object with no "results" key or an empty list
EmptyFile(file) == file.shape \in {"ok", "noresults"} /\ file.results = <<>>

\* C25: on a file that deserializes to an object with no "results" list or
\* an empty one, process_file_and_insert returns 0 and does not raise, also
\* when the store gives no connection (none is asked for); the table is
\* left as it was before the call, and the loop goes on to the next file.
C25_EmptyFileSkipped ==
    /\ \A f \in DOMAIN hist.rets :
          EmptyFile(rawData[f]) => hist.rets[f].ret = 0 /\ ~hist.rets[f].raised
    /\ (hist.last.file # 0 /\ EmptyFile(rawData[hist.last.file])) =>
          /\ store = hist.last.before
          /\ proc.pc \in {"loop", "returned"}
          /\ proc.raw_files[proc.idx - 1] = hist.last.file

\* the first file had no "results" key and was processed while the store
\* gave no connection: it returned 0, and the second file was upserted
C25_Witness ==
    /\ proc.pc = "returned"
    /\ proc.run = 1
    /\ proc.raw_files = <<1, 2>>
    /\ rawData[1].shape = "noresults"
    /\ hist.rets[1] = [ret |-> 0, raised |-> FALSE, fault |-> TRUE]
    /\ hist.rets[2] = [ret |-> 1, raised |-> FALSE, fault |-> FALSE]
    /\ RowCount(store) = 1

\* the fetch of date d is under way
Fetching(d) == unit[d].pc \in {"created", "request", "sleep"}

\* C26: when every request completes, the fetch of a date terminates: a
\* fetch under way always leads to a fetch that has returned.  It makes at
\* most max(1, total_pages of page 1) requests, and it goes on to another
\* request only while no request failed, no body was empty, every page
\* served had results and the last reported page was not reached.
C26_FetchTerminates ==
    /\ [](\A d \in Dates :
            LET h == unit[d].h
                bound == IF h.reported >= 1 THEN h.reported ELSE 1
            IN  /\ h.requests <= bound
                /\ (unit[d].pc \in {"request", "sleep"} /\ h.requests >= 1) =>
                      /\ h.aborted = 0 /\ ~h.cut
                      /\ \A p \in 1..Len(h.sizes) : h.sizes[p] > 0
                      /\ Len(h.sizes) < bound)
    /\ \A d \in 1..1 : Fetching(d) ~> Fetched(d)

\* the fetch returned after as many requests as page 1 reported pages, 3
C26_Witness ==
    \E d \in Dates :
        /\ Fetched(d)
        /\ unit[d].h.reported = 3
        /\ unit[d].h.requests = 3
        /\ unit[d].h.aborted = 0
        /\ unit[d].h.sizes = <<1, 1, 1>>

\* the fetch of date d was aborted by a failure after at least one page
AbortedMidFetch(d) == Fetched(d) /\ unit[d].h.aborted >= 2

\* C27 as stated: the snapshot returned after a mid-fetch abort differs
\* from the snapshot of a complete fetch of the pages that were served.
C27_Original ==
    \A d \in Dates :
        AbortedMidFetch(d) =>
            unit[d].daily_data # FetchDate(d, CompletePages(unit[d].h.sizes))

\* C27, amended: the snapshot returned after a mid-fetch abort carries no
\* status flag: it has the fields date, count and results only, count
\* being the number of records accumulated, and it equals the snapshot of
\* a complete fetch of a date that has exactly the pages served before the
\* abort; so does the artifact saved from it.
C27_PartialLikeComplete ==
    \A d \in Dates :
        AbortedMidFetch(d) =>
            LET complete == FetchDate(d, CompletePages(unit[d].h.sizes))
            IN  /\ DOMAIN unit[d].daily_data = {"date", "count", "results"}
                /\ unit[d].daily_data.count = Len(Served(d))
                /\ complete.count = Len(Served(d))
                /\ unit[d].daily_data = complete
                /\ unit[d].h.saved = "ok" => rawData[d] = Artifact(complete)

\* the fetch failed on page 3 after two full pages and its snapshot was
\* saved: the artifact is that of a complete date of two pages
C27_Witness ==
    \E d \in Dates :
        /\ unit[d].h.aborted = 3
        /\ unit[d].h.sizes = <<PageSize, PageSize>>
        /\ unit[d].h.saved = "ok"
        /\ rawData[d] = Artifact(FetchDate(d, CompletePages(<<PageSize, PageSize>>)))
        /\ rawData[d].count = 2 * PageSize

\* the file is a snapshot artifact of date d: date d, a positive count that
\* is the length of the results list
WellFormed(file, d) ==
    /\ file.shape = "ok"
    /\ file.date = d
    /\ file.count > 0
    /\ file.count = Len(file.results)

C29_SessionOutlivesUnits ==
    /\ \A d \in Dates : unit[d].pc \in {"created", "request", "sleep", "write"} =>
                              session = "open"
    /\ session = "closed" => dl = "returned" /\ \A d \in Dates : Finished(d)
    /\ dl = "gathering" => session = "open"
    /\ dl = "returned" => session = "closed"
    /\ dl = "raised" => session = "none" /\ \A d \in Dates : unit[d].pc = "none"

\* one unit failed on its second page, one raised in its save, one
\* fetched two pages: the session was closed after the three of them
C29_Witness ==
    /\ session = "closed"
    /\ dl = "returned"
    /\ \E d1, d2, d3 \in Dates :
          /\ unit[d1].h.aborted = 2 /\ unit[d1].pc = "done"
          /\ unit[d2].pc = "raised"
          /\ unit[d3].h.requests = 2 /\ unit[d3].h.aborted = 0 /\ unit[d3].pc = "done"

\* C30: whenever main_processor obtained a pool, the pool is closed when
\* main_processor has returned or raised, on every path: when the table
\* creation fails as well as when some or all files fail.
C30_PoolClosedOnExit ==
    (proc.pc \in {"returned", "raised"} /\ pool # "none") => pool = "closed"

=============================================================================
